---- MODULE Spec2Model ----
(***************************************************************************)
(* Model of convert.py: the Blender -> Gazebo exporter.  export_sdf builds *)
(* one <sdf>/<model>/<link> tree with a <visual> per mesh object and a     *)
(* <collision> synthesised by _add_collision_for_visual, writes model.sdf  *)
(* and model.config, and OT_TestOpenFilebrowser.execute reports the        *)
(* outcome.  Strings that the code inspects character by character (mesh   *)
(* names, keywords) are sequences of one-character strings; a non-ASCII    *)
(* character is written as its code point, e.g. "U+1ED7".                  *)
(***************************************************************************)
EXTENDS Integers, Sequences, FiniteSets, TLC

VARIABLES pc, directory_ok, mesh_objects, lightmap, sdf, o_idx,
          existing_collision_names, sdf_file, config_file, report, result,
          printed, raw, out, mkey

(* pc                       position in execute / export_sdf               *)
(* directory_ok             os.path.isdir(self.directory)                  *)
(* mesh_objects             the MESH objects of the scene, in order        *)
(* lightmap                 LightmapBaked.png is present in meshes/        *)
(* sdf                      the <sdf> element tree under construction      *)
(* o_idx                    number of mesh objects the loop has processed  *)
(* existing_collision_names the set threaded through the loop              *)
(* sdf_file, config_file    model.sdf and model.config on disk             *)
(* report, result           what execute reported and returned             *)
(* printed                  the messages printed so far                    *)
(* raw, out, mkey           argument and results of the pure functions     *)
vars == << pc, directory_ok, mesh_objects, lightmap, sdf, o_idx,
           existing_collision_names, sdf_file, config_file, report, result,
           printed, raw, out, mkey >>

(* ---------------------------- bounds ----------------------------------- *)
MaxMeshes == 3
MaxLen == 3
MaxFrags == 2

(* ------------------------- character classes --------------------------- *)
Digits == {"0", "1", "2", "3", "4", "5", "6", "7", "8", "9"}

LowerLetters ==
    {"a", "b", "c", "d", "e", "f", "g", "h", "i", "j", "k", "l", "m",
     "n", "o", "p", "q", "r", "s", "t", "u", "v", "w", "x", "y", "z"}

UpperLetters ==
    {"A", "B", "C", "D", "E", "F", "G", "H", "I", "J", "K", "L", "M",
     "N", "O", "P", "Q", "R", "S", "T", "U", "V", "W", "X", "Y", "Z"}

\* the class [0-9A-Za-z_] of the regular expression in _sanitize_name
WordChars == Digits \cup LowerLetters \cup UpperLetters \cup {"_"}

\* characters removed by str.strip()
Whitespace == {" ", "\t", "\n", "\r", "\f"}

\* str.lower(), character by character
LowerMap ==
    [c \in UpperLetters \cup {"U+0110"} |->
       CASE c = "A" -> "a" [] c = "B" -> "b" [] c = "C" -> "c" [] c = "D" -> "d"
         [] c = "E" -> "e" [] c = "F" -> "f" [] c = "G" -> "g" [] c = "H" -> "h"
         [] c = "I" -> "i" [] c = "J" -> "j" [] c = "K" -> "k" [] c = "L" -> "l"
         [] c = "M" -> "m" [] c = "N" -> "n" [] c = "O" -> "o" [] c = "P" -> "p"
         [] c = "Q" -> "q" [] c = "R" -> "r" [] c = "S" -> "s" [] c = "T" -> "t"
         [] c = "U" -> "u" [] c = "V" -> "v" [] c = "W" -> "w" [] c = "X" -> "x"
         [] c = "Y" -> "y" [] c = "Z" -> "z" [] c = "U+0110" -> "U+0111"]

lower(s) == [k \in 1..Len(s) |-> IF s[k] \in DOMAIN LowerMap THEN LowerMap[s[k]] ELSE s[k]]

\* str.replace(" ", "_")
replace_space(s) == [k \in 1..Len(s) |-> IF s[k] = " " THEN "_" ELSE s[k]]

\* the Python test "k in n": k occurs as a contiguous substring of n
Contains(n, k) ==
    \E p \in 0..(Len(n) - Len(k)) : \A j \in 1..Len(k) : n[p + j] = k[j]

(* --------------------------- program constants ------------------------- *)
MATERIALS ==
    [wood     |-> [mu |-> "0.5", mu2 |-> "0.5", restitution |-> "0.2"],
     concrete |-> [mu |-> "1.0", mu2 |-> "1.0", restitution |-> "0.05"],
     glass    |-> [mu |-> "0.4", mu2 |-> "0.4", restitution |-> "0.03"],
     default  |-> [mu |-> "0.8", mu2 |-> "0.8", restitution |-> "0.05"]]

WOOD_KEYS ==
    << <<"t", "r", "e", "e">>,
       <<"f", "o", "r", "e", "s", "t">>,
       <<"t", "r", "u", "n", "k">>,
       <<"b", "r", "a", "n", "c", "h">>,
       <<"w", "o", "o", "d">>,
       <<"b", "a", "r", "k">>,
       <<"p", "l", "a", "n", "t">>,
       <<"g", "o">>,
       <<"g", "U+1ED7">>,
       <<"c", "a", "y">>,
       <<"c", "U+00E2", "y">>,
       <<"t", "h", "a", "n">>,
       <<"t", "h", "U+00E2", "n">>,
       <<"c", "a", "n", "h">>,
       <<"c", "U+00E0", "n", "h">> >>
GLASS_KEYS ==
    << <<"g", "l", "a", "s", "s">>,
       <<"w", "i", "n", "d", "o", "w">>,
       <<"g", "l", "a", "z", "i", "n", "g">>,
       <<"k", "i", "n", "h">>,
       <<"k", "U+00ED", "n", "h">>,
       <<"c", "u", "a", "_", "k", "i", "n", "h">>,
       <<"c", "U+1EED", "a", " ", "k", "U+00ED", "n", "h">>,
       <<"m", "a", "t", "_", "k", "i", "n", "h">>,
       <<"m", "U+1EB7", "t", " ", "k", "U+00ED", "n", "h">>,
       <<"v", "a", "c", "h", "_", "k", "i", "n", "h">>,
       <<"v", "U+00E1", "c", "h", " ", "k", "U+00ED", "n", "h">> >>
ROAD_KEYS ==
    << <<"r", "o", "a", "d">>,
       <<"s", "t", "r", "e", "e", "t">>,
       <<"a", "v", "e", "n", "u", "e">>,
       <<"l", "a", "n", "e">>,
       <<"a", "l", "l", "e", "y">>,
       <<"h", "i", "g", "h", "w", "a", "y">>,
       <<"j", "u", "n", "c", "t", "i", "o", "n">>,
       <<"i", "n", "t", "e", "r", "s", "e", "c", "t", "i", "o", "n">>,
       <<"c", "r", "o", "s", "s", "i", "n", "g">>,
       <<"c", "r", "o", "s", "s", "w", "a", "l", "k">>,
       <<"r", "o", "u", "n", "d", "a", "b", "o", "u", "t">>,
       <<"p", "a", "r", "k", "i", "n", "g">>,
       <<"p", "a", "r", "k", "i", "n", "g", "_", "l", "o", "t">>,
       <<"s", "u", "r", "f", "a", "c", "e", "a", "r", "e", "a">>,
       <<"r", "o", "a", "d", "a", "r", "e", "a">>,
       <<"p", "a", "v", "e", "m", "e", "n", "t">>,
       <<"s", "i", "d", "e", "w", "a", "l", "k">>,
       <<"w", "a", "l", "k", "w", "a", "y">>,
       <<"d", "r", "i", "v", "e", "w", "a", "y">>,
       <<"k", "e", "r", "b">>,
       <<"c", "u", "r", "b">>,
       <<"a", "s", "p", "h", "a", "l", "t">>,
       <<"c", "o", "n", "c", "r", "e", "t", "e">>,
       <<"d", "u", "o", "n", "g">>,
       <<"U+0111", "U+01B0", "U+1EDD", "n", "g">>,
       <<"p", "h", "o">>,
       <<"p", "h", "U+1ED1">>,
       <<"n", "g", "o">>,
       <<"n", "g", "U+00F5">>,
       <<"n", "g", "a", "c", "h">>,
       <<"n", "g", "U+00E1", "c", "h">>,
       <<"d", "a", "i", "_", "l", "o">>,
       <<"U+0111", "U+1EA1", "i", " ", "l", "U+1ED9">>,
       <<"v", "a", "c", "h">>,
       <<"v", "U+1EA1", "c", "h">>,
       <<"b", "a", "i", "_", "d", "o">>,
       <<"b", "U+00E3", "i", " ", "U+0111", "U+1ED7">>,
       <<"v", "i", "a", "_", "h", "e">>,
       <<"v", "U+1EC9", "a", " ", "h", "U+00E8">>,
       <<"l", "o", "i", "_", "d", "i">>,
       <<"l", "U+1ED1", "i", " ", "U+0111", "i">>,
       <<"b", "e", "_", "t", "o", "n", "g">>,
       <<"b", "U+00EA", " ", "t", "U+00F4", "n", "g">>,
       <<"n", "h", "u", "a">>,
       <<"n", "h", "U+1EF1", "a">> >>

\* any(k in n for k in KEYS)
AnyKey(n, KEYS) == \E q \in 1..Len(KEYS) : Contains(n, KEYS[q])

(* ------------------------------ _sanitize_name ------------------------- *)
RECURSIVE lstrip(_)
lstrip(s) == IF s # << >> /\ Head(s) \in Whitespace THEN lstrip(Tail(s)) ELSE s

RECURSIVE rstrip(_)
rstrip(s) ==
    IF s # << >> /\ s[Len(s)] \in Whitespace THEN rstrip(SubSeq(s, 1, Len(s) - 1)) ELSE s

strip(s) == rstrip(lstrip(s))

\* re.sub(r"[^0-9A-Za-z_]+", "_", s): a left-to-right scan, inRun tells
\* whether the previous character already belonged to the current match
RECURSIVE re_sub(_, _)
re_sub(s, inRun) ==
    IF s = << >> THEN << >>
    ELSE IF Head(s) \in WordChars THEN << Head(s) >> \o re_sub(Tail(s), FALSE)
    ELSE IF inRun THEN re_sub(Tail(s), TRUE)
    ELSE << "_" >> \o re_sub(Tail(s), TRUE)

sanitize_name_nostrip(name) ==
    LET s == re_sub(name, FALSE)
    IN  IF s # << >> /\ s[1] \in Digits THEN << "n", "_" >> \o s ELSE s

sanitize_name(name) ==
    LET s == re_sub(strip(name), FALSE)
    IN  IF s # << >> /\ s[1] \in Digits THEN << "n", "_" >> \o s ELSE s

(* ------------------------------ _pick_material ------------------------- *)
pick_material_glass_first(name) ==
    LET n_norm == replace_space(lower(name))
    IN  IF AnyKey(n_norm, GLASS_KEYS) THEN "glass"
        ELSE IF AnyKey(n_norm, WOOD_KEYS) THEN "wood"
        ELSE IF AnyKey(n_norm, ROAD_KEYS) THEN "concrete"
        ELSE "default"

pick_material(name) ==
    LET n_norm == replace_space(lower(name))
    IN  IF AnyKey(n_norm, WOOD_KEYS) THEN "wood"
        ELSE IF AnyKey(n_norm, GLASS_KEYS) THEN "glass"
        ELSE IF AnyKey(n_norm, ROAD_KEYS) THEN "concrete"
        ELSE "default"

(* ------------------------------ documents ------------------------------ *)
Absent == "<absent>"

dae_filename == "model.dae"
sdf_filename == "model.sdf"
model_config_filename == "model.config"
lightmap_filename == "LightmapBaked.png"
model_name == "my_model"
meshes_folder_prefix == "meshes/"

NoMaterial ==
    [present |-> FALSE, diffuse |-> Absent, specular |-> Absent, pbr |-> FALSE,
     metal |-> FALSE, albedo_map |-> << >>, light_map |-> << >>]

NoSurface ==
    [mu |-> Absent, mu2 |-> Absent, slip1 |-> Absent, slip2 |-> Absent,
     restitution |-> Absent, threshold |-> Absent, kp |-> Absent, kd |-> Absent]

NoGeometry == [uri |-> << >>, submesh |-> << >>]

NoSdf == [version |-> Absent, models |-> << >>]

NoConfig ==
    [name |-> Absent, version |-> Absent, sdf_version |-> Absent,
     sdf |-> Absent, author |-> Absent]

\* <material> and <cast_shadows> of a visual, from the staged diffuse texture
\* (diffuse_map, "" when there is none) and the presence of the lightmap file
VisualMaterial_always(diffuse_map, has_lightmap) ==
    LET m1 == [present |-> TRUE, diffuse |-> "1.0 1.0 1.0 1.0",
               specular |-> "0.0 0.0 0.0 1.0", pbr |-> TRUE, metal |-> TRUE,
               albedo_map |-> << meshes_folder_prefix, diffuse_map >>,
               light_map |-> << >>]
    IN  IF has_lightmap
        THEN [material |-> [m1 EXCEPT !.light_map = << meshes_folder_prefix, lightmap_filename >>],
              cast_shadows |-> "0"]
        ELSE [material |-> m1, cast_shadows |-> Absent]

VisualMaterial(diffuse_map, has_lightmap) ==
    LET m1 == IF diffuse_map # ""
              THEN [present |-> TRUE, diffuse |-> "1.0 1.0 1.0 1.0",
                    specular |-> "0.0 0.0 0.0 1.0", pbr |-> TRUE, metal |-> TRUE,
                    albedo_map |-> << meshes_folder_prefix, diffuse_map >>,
                    light_map |-> << >>]
              ELSE NoMaterial
        metal_node_is_None == (diffuse_map = "")
        m2 == IF metal_node_is_None
              THEN [m1 EXCEPT !.present = TRUE, !.pbr = TRUE, !.metal = TRUE]
              ELSE m1
    IN  IF has_lightmap
        THEN [material |-> [m2 EXCEPT !.light_map = << meshes_folder_prefix, lightmap_filename >>],
              cast_shadows |-> "0"]
        ELSE [material |-> m1, cast_shadows |-> Absent]

\* the <visual> built for mesh object o, the idx-th of mesh_objects; obj is
\* the identity of the element (two visuals of equal content are distinct)
Visual(o, idx, has_lightmap) ==
    LET vm == VisualMaterial(o.diffuse_map, has_lightmap)
    IN  [tag |-> "visual", name |-> o.name, obj |-> idx,
         geometry |-> [uri |-> << meshes_folder_prefix, dae_filename >>, submesh |-> o.name],
         material |-> vm.material, cast_shadows |-> vm.cast_shadows,
         surface |-> NoSurface]

(* ----------------------- _add_collision_for_visual --------------------- *)
col_name_noprefix(vname) == sanitize_name(vname)

col_name(vname) == sanitize_name(<< "c", "o", "l", "_" >> \o vname)

CollisionSkipped_never(name, existing_names) == FALSE

CollisionSkipped(name, existing_names) == name \in existing_names

Surface_default(vname) ==
    [mu |-> MATERIALS["default"].mu, mu2 |-> MATERIALS["default"].mu2,
     slip1 |-> Absent, slip2 |-> Absent,
     restitution |-> MATERIALS["default"].restitution,
     threshold |-> "100.0", kp |-> "1e6", kd |-> "1.0"]

Surface(vname) ==
    LET k == pick_material(vname)
        preset == MATERIALS[k]
    IN  [mu |-> preset.mu, mu2 |-> preset.mu2,
         slip1 |-> IF k = "glass" THEN "0.02" ELSE Absent,
         slip2 |-> IF k = "glass" THEN "0.02" ELSE Absent,
         restitution |-> preset.restitution,
         threshold |-> "100.0", kp |-> "1e6", kd |-> "1.0"]

\* list(link_el).index(visual_el): elements compare by identity
\* (0-based, as in Python)
Index(children, el) ==
    LET k == CHOOSE k \in 1..Len(children) :
                 /\ children[k].tag = el.tag /\ children[k].obj = el.obj
                 /\ \A j \in 1..(k - 1) :
                        ~(children[j].tag = el.tag /\ children[j].obj = el.obj)
    IN  k - 1

\* list.insert(idx, el): el is placed before the element at 0-based idx
InsertAt(children, idx, el) ==
    SubSeq(children, 1, idx) \o << el >> \o SubSeq(children, idx + 1, Len(children))

InsertIndex_before(children, visual_el) == Index(children, visual_el)

InsertIndex(children, visual_el) == Index(children, visual_el) + 1

\* result: the link's children, the set of used names and the return value
add_collision_for_visual(children, visual_el, existing_names) ==
    LET vname == visual_el.name
        name  == col_name(vname)
        collision == [tag |-> "collision", name |-> name, obj |-> visual_el.obj,
                      geometry |-> [uri |-> visual_el.geometry.uri,
                                    submesh |-> visual_el.geometry.submesh],
                      material |-> NoMaterial, cast_shadows |-> Absent,
                      surface |-> Surface(vname)]
    IN  IF CollisionSkipped(name, existing_names)
        THEN [children |-> children, names |-> existing_names, ret |-> FALSE]
        ELSE IF visual_el.geometry = NoGeometry
        THEN [children |-> children, names |-> existing_names, ret |-> FALSE]
        ELSE [children |-> InsertAt(children, InsertIndex(children, visual_el), collision),
              names |-> existing_names \cup {name}, ret |-> TRUE]

(* ------------------------------ inputs --------------------------------- *)
MeshNames ==
    { <<"O", "l", "d", "T", "r", "e", "e">>,
      <<"C", "u", "a", "K", "i", "n", "h", "_", "0", "1">>,
      <<"S", "i", "d", "e", "w", "a", "l", "k">>,
      <<"1", "2", "3", "-", "W", "a", "l", "l", "!", "!">>,
      <<"W", "a", "l", "l", " ", "A">>,
      <<"W", "a", "l", "l", "-", "A">> }

\* a mesh object: its name and the basename of its staged diffuse texture
MeshEntries == [name : MeshNames, diffuse_map : {"", "tex.png"}]

MeshLists == UNION { [1..n -> MeshEntries] : n \in 0..MaxMeshes }

SanAlphabet == {"a", "Z", "7", "_", " ", "-", "!"}

SanitizeInputs == UNION { [1..n -> SanAlphabet] : n \in 0..MaxLen }

Fragments ==
    { <<"O", "l", "d">>, <<"T", "r", "e", "e">>,
      <<"C", "u", "a", "K", "i", "n", "h">>, <<"_", "0", "1">>,
      <<"S", "i", "d", "e", "w", "a", "l", "k">>, <<"G", "l", "a", "s", "s">>,
      <<" ">>, <<"D", "a", "i", " ", "L", "o">>,
      <<"V", "U+1EC9", "a", " ", "h", "U+00E8">>,
      <<"U+0110", "U+01B0", "U+1EDD", "n", "g">>, <<"B", "o", "x">> }

RECURSIVE Flatten(_)
Flatten(fs) == IF fs = << >> THEN << >> ELSE Head(fs) \o Flatten(Tail(fs))

ClassifyInputs == { Flatten(fs) : fs \in UNION { [1..n -> Fragments] : n \in 0..MaxFrags } }

(* --------------------------- export run -------------------------------- *)
Link == IF sdf.models = << >> THEN << >> ELSE sdf.models[1].links[1].children

RunIdle ==
    /\ sdf = NoSdf
    /\ o_idx = 0
    /\ existing_collision_names = {}
    /\ sdf_file = [written |-> FALSE, name |-> Absent, doc |-> NoSdf]
    /\ config_file = [written |-> FALSE, name |-> Absent, doc |-> NoConfig]
    /\ report = Absent
    /\ result = Absent
    /\ printed = {}

Init ==
    /\ pc = "idle"
    /\ directory_ok \in BOOLEAN
    /\ mesh_objects \in MeshLists
    /\ lightmap \in BOOLEAN
    /\ RunIdle
    /\ raw = << >> /\ out = << >> /\ mkey = Absent

pure == << raw, out, mkey >>
scene == << directory_ok, mesh_objects, lightmap >>

\* execute, directory is not a directory
ExecuteInvalid ==
    /\ pc = "idle" /\ ~directory_ok
    /\ report' = "ERROR"
    /\ result' = "CANCELLED"
    /\ pc' = "done"
    /\ UNCHANGED << scene, sdf, o_idx, existing_collision_names, sdf_file,
                    config_file, printed, pure >>

\* execute, directory valid: export_sdf is entered
ExecuteValid ==
    /\ pc = "idle" /\ directory_ok
    /\ printed' = printed \cup {"export_to_directory"}
    /\ pc' = "export_dae"
    /\ UNCHANGED << scene, sdf, o_idx, existing_collision_names, sdf_file,
                    config_file, report, result, pure >>

\* collada_export raised
ExportDaeFail ==
    /\ pc = "export_dae"
    /\ printed' = printed \cup {"dae_error"}
    /\ pc' = "returned"
    /\ UNCHANGED << scene, sdf, o_idx, existing_collision_names, sdf_file,
                    config_file, report, result, pure >>

\* collada_export succeeded; the empty document tree is created
ExportDaeOk ==
    /\ pc = "export_dae"
    /\ printed' = printed \cup {"dae_exported"}
    /\ sdf' = [version |-> "1.8",
               models |-> << [name |-> model_name, static |-> "true",
                              links |-> << [name |-> "testlink", children |-> << >>] >>] >>]
    /\ existing_collision_names' = {}
    /\ o_idx' = 0
    /\ pc' = "loop"
    /\ UNCHANGED << scene, sdf_file, config_file, report, result, pure >>

\* one iteration of "for o in mesh_objects"
LoopBody ==
    /\ pc = "loop" /\ o_idx < Len(mesh_objects)
    /\ LET idx == o_idx + 1
           o == mesh_objects[idx]
           visual == Visual(o, idx, lightmap)
           appended == Append(Link, visual)
           r == add_collision_for_visual(appended, visual, existing_collision_names)
       IN  /\ sdf' = [sdf EXCEPT !.models[1].links[1].children = r.children]
           /\ existing_collision_names' = r.names
           /\ o_idx' = idx
           /\ printed' = IF lightmap THEN printed ELSE printed \cup {"lightmap_not_found"}
    /\ UNCHANGED << pc, scene, sdf_file, config_file, report, result, pure >>

WriteSdfFail_continue ==
    /\ pc = "loop" /\ o_idx = Len(mesh_objects)
    /\ printed' = printed \cup {"sdf_error"}
    /\ pc' = "write_config"
    /\ UNCHANGED << scene, sdf, o_idx, existing_collision_names, sdf_file,
                    config_file, report, result, pure >>

\* rendering or writing model.sdf raised
WriteSdfFail ==
    /\ pc = "loop" /\ o_idx = Len(mesh_objects)
    /\ printed' = printed \cup {"sdf_error"}
    /\ pc' = "returned"
    /\ UNCHANGED << scene, sdf, o_idx, existing_collision_names, sdf_file,
                    config_file, report, result, pure >>

WriteSdfOk ==
    /\ pc = "loop" /\ o_idx = Len(mesh_objects)
    /\ sdf_file' = [written |-> TRUE, name |-> sdf_filename, doc |-> sdf]
    /\ pc' = "write_config"
    /\ UNCHANGED << scene, sdf, o_idx, existing_collision_names,
                    config_file, report, result, printed, pure >>

config_model_v16 ==
    [name |-> model_name, version |-> "1.0", sdf_version |-> "1.6",
     sdf |-> sdf_filename, author |-> "Generated by blender SDF tools"]

config_model ==
    [name |-> model_name, version |-> "1.0", sdf_version |-> "1.8",
     sdf |-> sdf_filename, author |-> "Generated by blender SDF tools"]

\* rendering or writing model.config raised
WriteConfigFail ==
    /\ pc = "write_config"
    /\ printed' = printed \cup {"config_error"}
    /\ pc' = "returned"
    /\ UNCHANGED << scene, sdf, o_idx, existing_collision_names, sdf_file,
                    config_file, report, result, pure >>

WriteConfigOk ==
    /\ pc = "write_config"
    /\ config_file' = [written |-> TRUE, name |-> model_config_filename, doc |-> config_model]
    /\ printed' = printed \cup {"export_success"}
    /\ pc' = "returned"
    /\ UNCHANGED << scene, sdf, o_idx, existing_collision_names, sdf_file,
                    report, result, pure >>

\* execute, after export_sdf returned
ExecuteReport ==
    /\ pc = "returned"
    /\ report' = "INFO"
    /\ result' = "FINISHED"
    /\ pc' = "done"
    /\ UNCHANGED << scene, sdf, o_idx, existing_collision_names, sdf_file,
                    config_file, printed, pure >>

Next ==
    \/ ExecuteInvalid
    \/ ExecuteValid
    \/ ExportDaeFail
    \/ ExportDaeOk
    \/ LoopBody
    \/ WriteSdfFail
    \/ WriteSdfOk
    \/ WriteConfigFail
    \/ WriteConfigOk
    \/ ExecuteReport

Spec == Init /\ [][Next]_vars

(* ------------------ the pure functions on their own -------------------- *)
PureIdle ==
    /\ directory_ok = FALSE /\ mesh_objects = << >> /\ lightmap = FALSE
    /\ RunIdle

InitSanitize ==
    /\ pc = "input"
    /\ raw \in SanitizeInputs
    /\ out = << >> /\ mkey = Absent
    /\ PureIdle

ApplySanitize ==
    /\ pc = "input"
    /\ out' = sanitize_name(raw)
    /\ pc' = "sanitized"
    /\ UNCHANGED << raw, mkey, scene, sdf, o_idx, existing_collision_names,
                    sdf_file, config_file, report, result, printed >>

SpecSanitize == InitSanitize /\ [][ApplySanitize]_vars

InitClassify ==
    /\ pc = "input"
    /\ raw \in ClassifyInputs
    /\ out = << >> /\ mkey = Absent
    /\ PureIdle

ApplyClassify ==
    /\ pc = "input"
    /\ mkey' = pick_material(raw)
    /\ pc' = "classified"
    /\ UNCHANGED << raw, out, scene, sdf, o_idx, existing_collision_names,
                    sdf_file, config_file, report, result, printed >>

SpecClassify == InitClassify /\ [][ApplyClassify]_vars

(* ======================= properties of the export ====================== *)
Built == pc \in {"loop", "write_config", "returned", "done"} /\ sdf # NoSdf

CollisionIdx == { k \in 1..Len(Link) : Link[k].tag = "collision" }
VisualIdx == { k \in 1..Len(Link) : Link[k].tag = "visual" }

HasCollision(m) == \E k \in CollisionIdx : Link[k].obj = m

\* the identifier a mesh name leads to, spelled out from the text of the
\* claim: "col_" followed by the name, stripped, runs collapsed
Candidate(vname) == << "c", "o", "l", "_" >> \o vname

IsWS(c) == c \in Whitespace

StripRef(s) ==
    LET nz == { k \in 1..Len(s) : ~IsWS(s[k]) }
    IN  IF nz = {} THEN << >>
        ELSE LET lo == CHOOSE k \in nz : \A j \in nz : k <= j
                 hi == CHOOSE k \in nz : \A j \in nz : k >= j
             IN  SubSeq(s, lo, hi)

\* every maximal run of characters outside [0-9A-Za-z_] replaced by one "_":
\* a character is kept if it is a word character or the first of its run
Collapse(s) ==
    LET keep(k) == s[k] \in WordChars \/ k = 1 \/ s[k - 1] \in WordChars
        F[k \in 0..Len(s)] ==
            IF k = 0 THEN << >>
            ELSE IF keep(k)
                 THEN Append(F[k - 1], IF s[k] \in WordChars THEN s[k] ELSE "_")
                 ELSE F[k - 1]
    IN  F[Len(s)]

MatchesIdentifier(s) ==
    /\ s # << >>
    /\ s[1] \in LowerLetters \cup UpperLetters \cup {"_"}
    /\ \A k \in 1..Len(s) : s[k] \in WordChars

\* C1: after every iteration of the export loop no two collision elements of
\* the link have the same name, and a processed mesh has a collision exactly
\* when no earlier mesh of the list leads to the same sanitized identifier
\* (the later ones keep their visual and get no collision).
C1_UniqueCollisionNames ==
    Built =>
      /\ \A j, k \in CollisionIdx : j # k => Link[j].name # Link[k].name
      /\ \A m \in 1..o_idx :
            /\ \E k \in VisualIdx : Link[k].obj = m /\ Link[k].name = mesh_objects[m].name
            /\ HasCollision(m) <=>
                 (\A e \in 1..(m - 1) :
                     Collapse(StripRef(Candidate(mesh_objects[e].name)))
                       # Collapse(StripRef(Candidate(mesh_objects[m].name))))

\* two distinct mesh names collapse to one identifier; the later one is skipped
C1_Witness ==
    /\ pc = "loop" /\ o_idx = 2
    /\ mesh_objects[1].name # mesh_objects[2].name
    /\ HasCollision(1) /\ ~HasCollision(2)
    /\ Cardinality(VisualIdx) = 2

\* C2: the children of the link are, for each processed mesh in input order,
\* one visual named after the mesh, followed immediately by its collision if
\* one was created.
C2_CollisionFollowsVisual ==
    Built =>
      LET visuals == SelectSeq(Link, LAMBDA e : e.tag = "visual")
      IN  /\ Len(visuals) = o_idx
          /\ \A m \in 1..o_idx :
                visuals[m].obj = m /\ visuals[m].name = mesh_objects[m].name
          /\ \A k \in CollisionIdx :
                /\ k > 1
                /\ Link[k - 1].tag = "visual"
                /\ Link[k - 1].obj = Link[k].obj
                /\ Link[k].geometry = Link[k - 1].geometry

\* the second mesh was skipped by the dedupe guard, the third got a collision
C2_Witness ==
    /\ Built /\ o_idx = 3
    /\ HasCollision(1) /\ ~HasCollision(2) /\ HasCollision(3)
    /\ Len(Link) = 5

SdfFailed == "sdf_error" \in printed
ConfigFailed == "config_error" \in printed
ConfigAttempted == config_file.written \/ ConfigFailed

\* C3 (as stated): if rendering or writing model.sdf fails, the write of
\* model.config is still attempted in the same export run.
C3_ManifestStillAttempted ==
    (pc = "done" /\ SdfFailed) => ConfigAttempted

\* C3 (amended): a failure of model.sdf ends the export run, model.config is
\* neither attempted nor written; a failure of model.config leaves the
\* model.sdf already written in place.
C3_SdfFailureEndsRun ==
    /\ SdfFailed => (~ConfigAttempted /\ ~sdf_file.written /\ pc \in {"returned", "done"})
    /\ ConfigFailed => (sdf_file.written /\ sdf_file.doc = sdf /\ sdf_file.name = sdf_filename)

C3_Witness == pc = "done" /\ SdfFailed /\ ~config_file.written

\* C4: the operator reports success and returns FINISHED only if both
\* model.sdf and model.config were written; a fatal error (mesh export
\* failure, serialization failure) ends in an error report; an invalid
\* output directory aborts before any write.
C4_SuccessOnlyIfBothWritten ==
    /\ (report = "INFO" \/ result = "FINISHED") => (sdf_file.written /\ config_file.written)
    /\ (pc = "done" /\ ("dae_error" \in printed \/ SdfFailed \/ ConfigFailed)) => report = "ERROR"
    /\ (pc = "done" /\ ~directory_ok) =>
          (report = "ERROR" /\ ~sdf_file.written /\ ~config_file.written)

Wall123 == <<"1", "2", "3", "-", "W", "a", "l", "l", "!", "!">>

\* C6 (as stated): the collision created for the visual of mesh "123-Wall!!"
\* is named n_123_Wall_.
C6_DigitGuardedName ==
    \A k \in CollisionIdx :
        mesh_objects[Link[k].obj].name = Wall123 =>
            Link[k].name = <<"n", "_", "1", "2", "3", "_", "W", "a", "l", "l", "_">>

\* C6 (amended): the collision created for the visual of mesh "123-Wall!!" is
\* named col_123_Wall_; every collision identifier is the candidate
\* col_<visual name>, stripped and with each run of other characters collapsed
\* to one "_", so it starts with col_ and the digit guard adds nothing.
C6_ColPrefixedName ==
    \A k \in CollisionIdx :
        LET vname == mesh_objects[Link[k].obj].name
        IN  /\ vname = Wall123 =>
                 Link[k].name = <<"c", "o", "l", "_", "1", "2", "3", "_", "W", "a", "l", "l", "_">>
            /\ Link[k].name = Collapse(StripRef(Candidate(vname)))
            /\ SubSeq(Link[k].name, 1, 4) = <<"c", "o", "l", "_">>
            /\ MatchesIdentifier(Link[k].name)

C6_Witness ==
    \E k \in CollisionIdx : mesh_objects[Link[k].obj].name = Wall123

PresetRow(category) ==
    CASE category = "wood"     -> << "0.5", "0.5", "0.2" >>
      [] category = "concrete" -> << "1.0", "1.0", "0.05" >>
      [] category = "glass"    -> << "0.4", "0.4", "0.03" >>
      [] category = "default"  -> << "0.8", "0.8", "0.05" >>

\* the category of each mesh name of the model, as the keyword lists give it
CategoryOf(vname) ==
    CASE vname = <<"O", "l", "d", "T", "r", "e", "e">> -> "wood"
      [] vname = <<"C", "u", "a", "K", "i", "n", "h", "_", "0", "1">> -> "glass"
      [] vname = <<"S", "i", "d", "e", "w", "a", "l", "k">> -> "concrete"
      [] OTHER -> "default"

\* C8: every collision carries the row of the preset table of the category of
\* the visual's unsanitized name; slip1 and slip2 (0.02) are present exactly
\* for glass; kp, kd and the bounce threshold are the same in every collision.
C8_SurfaceFollowsCategory ==
    \A k \in CollisionIdx :
        LET vname == mesh_objects[Link[k].obj].name
            cat == CategoryOf(vname)
            s == Link[k].surface
        IN  /\ << s.mu, s.mu2, s.restitution >> = PresetRow(cat)
            /\ (cat = "glass") => (s.slip1 = "0.02" /\ s.slip2 = "0.02")
            /\ (cat # "glass") => (s.slip1 = Absent /\ s.slip2 = Absent)
            /\ s.kp = "1e6" /\ s.kd = "1.0" /\ s.threshold = "100.0"

C8_Witness ==
    /\ \E k \in CollisionIdx : CategoryOf(mesh_objects[Link[k].obj].name) = "glass"
    /\ \E k \in CollisionIdx : CategoryOf(mesh_objects[Link[k].obj].name) = "wood"
    /\ \E k \in CollisionIdx : CategoryOf(mesh_objects[Link[k].obj].name) = "concrete"

\* C9: a visual has a material block iff its mesh has a staged diffuse texture
\* or the lightmap exists; without both there is no material and no
\* cast_shadows; with only the lightmap the material holds pbr/metal/light_map
\* and nothing else; light_map is present iff cast_shadows is "0"; the
\* diffuse/specular constants and the albedo map appear iff the diffuse
\* texture is present.
C9_MaterialBlock ==
    \A k \in VisualIdx :
        LET v == Link[k]
            d == mesh_objects[v.obj].diffuse_map
            m == v.material
        IN  /\ m.present <=> (d # "" \/ lightmap)
            /\ (d = "" /\ ~lightmap) => (m = NoMaterial /\ v.cast_shadows = Absent)
            /\ (d = "" /\ lightmap) =>
                  /\ m.pbr /\ m.metal /\ m.light_map = << "meshes/", "LightmapBaked.png" >>
                  /\ m.diffuse = Absent /\ m.specular = Absent /\ m.albedo_map = << >>
            /\ (m.light_map # << >>) <=> (v.cast_shadows = "0")
            /\ (m.light_map # << >>) <=> lightmap
            /\ v.cast_shadows \in {"0", Absent}
            /\ (d # "") <=> (m.diffuse = "1.0 1.0 1.0 1.0")
            /\ (d # "") <=> (m.specular = "0.0 0.0 0.0 1.0")
            /\ (d # "") <=> (m.albedo_map = << "meshes/", d >>)
            /\ (m.metal => m.pbr) /\ (m.pbr => m.present)

C9_Witness ==
    /\ lightmap
    /\ \E k \in VisualIdx : mesh_objects[Link[k].obj].diffuse_map = ""
    /\ \E k \in VisualIdx : mesh_objects[Link[k].obj].diffuse_map # ""

\* C10: when both documents are written, the manifest's sdf version equals
\* the scene document's version and its sdf filename is the name model.sdf
\* was written under; with no meshes the scene document still has exactly one
\* model, static, with exactly one link, which has no children.
C10_ManifestMatchesScene ==
    (sdf_file.written /\ config_file.written) =>
        /\ config_file.doc.sdf_version = sdf_file.doc.version
        /\ config_file.doc.sdf = sdf_file.name
        /\ Len(sdf_file.doc.models) = 1
        /\ sdf_file.doc.models[1].static = "true"
        /\ Len(sdf_file.doc.models[1].links) = 1
        /\ (mesh_objects = << >>) => (sdf_file.doc.models[1].links[1].children = << >>)

C10_Witness ==
    sdf_file.written /\ config_file.written /\ mesh_objects = << >> /\ pc = "done"

(* ======================= properties of _sanitize_name ================== *)
\* C5 (as stated): the result is raw with every maximal run of characters
\* outside [0-9A-Za-z_] replaced by one "_", prefixed with n_ if that is empty
\* or starts with a digit; so it is never empty and is an identifier.
C5_ReferenceWithoutStrip ==
    pc = "sanitized" =>
        LET c == Collapse(raw)
            ref == IF c = << >> \/ c[1] \in Digits THEN << "n", "_" >> \o c ELSE c
        IN  out = ref /\ MatchesIdentifier(out)

\* C5 (amended): the result is raw, stripped of leading and trailing
\* whitespace, with every maximal run of characters outside [0-9A-Za-z_]
\* replaced by one "_", prefixed with n_ if that starts with a digit; it is
\* empty exactly when raw is empty or all whitespace and is an identifier
\* otherwise.
C5_ReferenceWithStrip ==
    pc = "sanitized" =>
        LET c == Collapse(StripRef(raw))
            ref == IF c # << >> /\ c[1] \in Digits THEN << "n", "_" >> \o c ELSE c
        IN  /\ out = ref
            /\ (out = << >>) <=> (\A k \in 1..Len(raw) : IsWS(raw[k]))
            /\ (out # << >>) => MatchesIdentifier(out)

\* a digit behind leading whitespace, punctuation run inside
C5_Witness ==
    pc = "sanitized" /\ Len(raw) = 3 /\ raw[1] = " " /\ raw[2] = "7" /\ raw[3] = "!"
    /\ out = << "n", "_", "7", "_" >>

(* ======================= properties of _pick_material ================== *)
HasKey(KEYS) ==
    \E q \in 1..Len(KEYS) : \E p \in 1..Len(raw) :
        /\ p + Len(KEYS[q]) - 1 <= Len(raw)
        /\ \A j \in 1..Len(KEYS[q]) :
              LET c == raw[p + j - 1]
                  lc == IF c \in DOMAIN LowerMap THEN LowerMap[c] ELSE c
              IN  (IF lc = " " THEN "_" ELSE lc) = KEYS[q][j]

\* C7: the category is the first of wood, glass, concrete whose keyword list
\* has a keyword occurring in the lower-cased name with spaces replaced by
\* "_", else default; only wood keywords -> wood, only glass keywords ->
\* glass, only road keywords -> concrete, wood and glass keywords -> wood.
C7_FirstCategoryWins ==
    pc = "classified" =>
        /\ HasKey(WOOD_KEYS) => mkey = "wood"
        /\ (HasKey(GLASS_KEYS) /\ ~HasKey(WOOD_KEYS)) => mkey = "glass"
        /\ (HasKey(ROAD_KEYS) /\ ~HasKey(WOOD_KEYS) /\ ~HasKey(GLASS_KEYS)) => mkey = "concrete"
        /\ (~HasKey(ROAD_KEYS) /\ ~HasKey(WOOD_KEYS) /\ ~HasKey(GLASS_KEYS)) => mkey = "default"
        /\ raw = <<"O", "l", "d", "T", "r", "e", "e">> => mkey = "wood"
        /\ raw = <<"C", "u", "a", "K", "i", "n", "h", "_", "0", "1">> => mkey = "glass"
        /\ raw = <<"S", "i", "d", "e", "w", "a", "l", "k">> => mkey = "concrete"
        /\ raw = <<"D", "a", "i", " ", "L", "o">> => mkey = "concrete"

\* a name with a glass and a wood keyword
C7_Witness ==
    pc = "classified" /\ raw = <<"G", "l", "a", "s", "s", "T", "r", "e", "e">> /\ mkey = "wood"
====
